---- MODULE Spec2Model ----
(***************************************************************************)
(* A state-machine model of src/src/CognitoUser.js: the CognitoUser object *)
(* (username, provider session token, current session, device identity),   *)
(* window.localStorage as the token/device cache, and the callback chains  *)
(* of authenticateUser, getDeviceResponse, sendMFACode,                    *)
(* sendCustomChallengeAnswer, getSession, refreshSession, the protected    *)
(* operations and signOut.  Every provider round trip is two steps: the    *)
(* method (or the previous callback) issues the request, and the callback  *)
(* of makeUnauthenticatedRequest handles the provider's answer, which is   *)
(* an input drawn from a small set.                                        *)
(***************************************************************************)
EXTENDS Integers, Sequences, FiniteSets, TLC

VARIABLES
  users,      \* user object -> its fields (this.username, this.Session, ...)
  storage,    \* window.localStorage: a partial map from keys to strings
  slot,       \* user object -> the call in progress or last finished on it
  issued,     \* number of AuthenticationResults the provider has issued
  expired     \* the AuthenticationResults (1..expired) whose tokens have expired

vars == <<users, storage, slot, issued, expired>>

----------------------------------------------------------------------------
(* Bounds of the model. *)

\* AuthenticationResults the provider issues in one behaviour.
MaxIssue == 2

----------------------------------------------------------------------------
(* Values.  Every JavaScript value the model moves around is a record      *)
(* [k, n]: k names the kind, n tells two values of a kind apart.           *)

Val(k, n) == [k |-> k, n |-> n]

Null == Val("null", 0)
Undef == Val("undefined", 0)
Empty == Val("''", 0)

\* x == null in JavaScript: true of null and of undefined.
IsNullish(v) == v \in {Null, Undef}

\* if (x): null, undefined and the empty string are falsy.
Truthy(v) == v \notin {Null, Undef, Empty}

\* String(v), the conversion localStorage.setItem applies to its value.
ToStr(v) ==
  IF v = Null THEN Val("'null'", 0)
  ELSE IF v = Undef THEN Val("'undefined'", 0)
  ELSE v

\* obj[f] on a JavaScript object: undefined when the property is missing.
Get(obj, f) == IF f \in DOMAIN obj THEN obj[f] ELSE Undef

ClientId == Val("c1", 0)
PoolName == Val("abc", 0)

Alias == Val("al", 0)
Alice == Val("alice", 0)
\* Another user of the same pool and client, in the same browser.
Bob == Val("bob", 0)

\* The canonical username the provider returns as USER_ID_FOR_SRP.
UserIdForSrp(name) == IF name = Alias THEN Alice ELSE name

IdTok(n) == Val("id", n)
AccTok(n) == Val("acc", n)
RefTok(n) == Val("ref", n)
DevKey(n) == Val("deviceKey", n)
DevGroup(n) == Val("deviceGroupKey", n)
RandomPw(n) == Val("randomPassword", n)

Passwords == {Val("password", 1)}
SessTokens == {Val("session", 1), Val("session", 2)}
ProviderErrors == {Val("ProviderError", 1)}
MfaCodes == {Val("code", 1)}
Answers == {Val("answer", 1)}

NotAuthenticated == Val("User is not authenticated", 0)
PleaseAuthenticate == Val("Cannot retrieve a new session. Please authenticate.", 0)
UsernameIsNull == Val("Username is null. Cannot retrieve a new session", 0)

----------------------------------------------------------------------------
(* window.localStorage *)

getItem(st, key) == IF key \in DOMAIN st THEN st[key] ELSE Null

setItem(st, key, v) == [k \in DOMAIN st \cup {key} |-> IF k = key THEN ToStr(v) ELSE st[k]]

removeItem(st, key) == [k \in DOMAIN st \ {key} |-> st[k]]

\* 'CognitoIdentityServiceProvider.' + clientId + '.' + username + '.' + field
UserKey(name, field) == [client |-> ClientId, user |-> name, field |-> field]

\* 'CognitoIdentityServiceProvider.' + clientId + '.LastAuthUser'
LastUserKey == [client |-> ClientId, field |-> "LastAuthUser"]

----------------------------------------------------------------------------
(* Tokens and sessions *)

\* new CognitoIdToken / CognitoAccessToken / CognitoRefreshToken: each keeps
\* the string it was constructed from.
TokenOf(data, f) == Get(data, f)

\* CognitoUserSession.isValid(): both the ID and the access token carry an
\* expiry claim that is still in the future.
isValid(session) ==
  /\ session.IdToken.k = "id"
  /\ session.AccessToken.k = "acc"
  /\ session.IdToken.n > expired
  /\ session.AccessToken.n > expired

getCognitoUserSession(authResult) ==
  [IdToken |-> TokenOf(authResult, "IdToken"),
   AccessToken |-> TokenOf(authResult, "AccessToken"),
   RefreshToken |-> TokenOf(authResult, "RefreshToken")]

\* this.signInUserSession != null && this.signInUserSession.isValid()
HasValidSession(user) ==
  /\ ~IsNullish(user.signInUserSession)
  /\ isValid(user.signInUserSession)

\* cacheTokens without its last line: LastAuthUser is not written.
cacheTokensWithoutLastUser(st, user) ==
  LET s1 == setItem(st, UserKey(user.username, "idToken"), user.signInUserSession.IdToken)
      s2 == setItem(s1, UserKey(user.username, "accessToken"), user.signInUserSession.AccessToken)
  IN setItem(s2, UserKey(user.username, "refreshToken"), user.signInUserSession.RefreshToken)

cacheTokens(st, user) ==
  LET s1 == setItem(st, UserKey(user.username, "idToken"), user.signInUserSession.IdToken)
      s2 == setItem(s1, UserKey(user.username, "accessToken"), user.signInUserSession.AccessToken)
      s3 == setItem(s2, UserKey(user.username, "refreshToken"), user.signInUserSession.RefreshToken)
  IN setItem(s3, LastUserKey, user.username)

\* cacheDeviceKeyAndPassword that writes nothing.
cacheDeviceKeyAndPasswordSkipped(st, user) == st

cacheDeviceKeyAndPassword(st, user) ==
  LET s1 == setItem(st, UserKey(user.username, "deviceKey"), user.deviceKey)
      s2 == setItem(s1, UserKey(user.username, "randomPasswordKey"), user.randomPassword)
  IN setItem(s2, UserKey(user.username, "deviceGroupKey"), user.deviceGroupKey)

getCachedDeviceKeyAndPassword(st, user) ==
  IF Truthy(getItem(st, UserKey(user.username, "deviceKey")))
  THEN [user EXCEPT
          !.deviceKey = getItem(st, UserKey(user.username, "deviceKey")),
          !.randomPassword = getItem(st, UserKey(user.username, "randomPasswordKey")),
          !.deviceGroupKey = getItem(st, UserKey(user.username, "deviceGroupKey"))]
  ELSE user

clearCachedDeviceKeyAndPassword(st, user) ==
  LET s1 == removeItem(st, UserKey(user.username, "deviceKey"))
      s2 == removeItem(s1, UserKey(user.username, "randomPasswordKey"))
  IN removeItem(s2, UserKey(user.username, "deviceGroupKey"))

\* clearCachedTokens that leaves the LastAuthUser entry in place.
clearCachedTokensKeepingLastUser(st, user) ==
  LET s1 == removeItem(st, UserKey(user.username, "idToken"))
      s2 == removeItem(s1, UserKey(user.username, "accessToken"))
  IN removeItem(s2, UserKey(user.username, "refreshToken"))

clearCachedTokens(st, user) ==
  LET s1 == removeItem(st, UserKey(user.username, "idToken"))
      s2 == removeItem(s1, UserKey(user.username, "accessToken"))
      s3 == removeItem(s2, UserKey(user.username, "refreshToken"))
  IN removeItem(s3, LastUserKey)

----------------------------------------------------------------------------
(* SRP values and the challenge signature *)

LargeA == Val("SRP_A", 1)
SrpB == Val("SRP_B", 1)
\* A server value B with B mod N = 0.
SrpBZero == Val("SRP_B", 0)
\* The server values SRP_B a challenge can carry.
ServerBValues == {SrpB, SrpBZero}
Salt == Val("SALT", 1)
SecretBlock == Val("SECRET_BLOCK", 1)
UserAgent == Val("navigator.userAgent", 0)

\* dateHelper.getNowString(): the values the clock can show.
Timestamps == {Val("now", 1), Val("now", 2)}

\* getPasswordAuthenticationKey checks the server value before deriving the
\* key and throws ('B cannot be zero.') when B mod N = 0.
KeyDerivationRejects(B) == B = SrpBZero

\* new AuthenticationHelper(pool, paranoia).getPasswordAuthenticationKey(
\*   username, password, serverBValue, salt): the key as the term of its inputs.
getPasswordAuthenticationKey(pool, name, password, B, salt) ==
  [pool |-> pool, username |-> name, password |-> password, B |-> B, salt |-> salt]

\* Signature that hands out the key in place of the digest.
SignatureLeakingKey(hkdf, pool, name, secretBlock, dateNow) == hkdf

\* mac = new hmac(hkdf); mac.update(pool); mac.update(name);
\* mac.update(secretBlock); mac.update(dateNow); mac.digest()
Signature(hkdf, pool, name, secretBlock, dateNow) ==
  [key |-> hkdf, msg |-> <<pool, name, secretBlock, dateNow>>]

\* generateHashDevice(deviceGroupKey, deviceKey): salt and verifier of the
\* device, made from a fresh random password.
DeviceSecretVerifierConfig(n) ==
  [Salt |-> Val("deviceSalt", n), PasswordVerifier |-> Val("deviceVerifier", n)]

----------------------------------------------------------------------------
(* The call in progress on a user object.                                  *)
(*   op        the public method that was called                           *)
(*   pc        the provider answer the call waits for, or idle/done/threw  *)
(*   req       the provider request that is outstanding                    *)
(*   answered  the request (by its pc) that resp answers                   *)
(*   resp      the provider answer handled last                            *)
(*   cb        the callbacks invoked so far, in order                      *)
(*   cl        the locals the pending callback closes over                 *)

NoReq == [api |-> "none"]
NoResp == [err |-> Null]
NoClosure == [none |-> Null]

Idle == [op |-> "none", pc |-> "idle", req |-> NoReq, answered |-> "none",
         resp |-> NoResp, cb |-> <<>>, cl |-> NoClosure]

Settled(s) == s.pc \in {"idle", "done", "threw"}

\* The call that finished last on the object ended by invoking chan.
EndedWith(s, chan) ==
  s.pc = "done" /\ s.cb # <<>> /\ s.cb[Len(s.cb)].chan = chan

Report(chan, args) == [chan |-> chan, args |-> args]

\* A method is called and issues its first provider request.
Start(op, pc, req, cl) ==
  [Idle EXCEPT !.op = op, !.pc = pc, !.req = req, !.cl = cl]

\* A method returns at once, having invoked the callback.
Returned(op, report) ==
  [Idle EXCEPT !.op = op, !.pc = "done", !.cb = <<report>>]

\* A method returns at once without invoking anything.
Silent(op) ==
  [Idle EXCEPT !.op = op, !.pc = "done"]

\* A method call ends with an uncaught exception.
Thrown(op) ==
  [Idle EXCEPT !.op = op, !.pc = "threw"]

\* A callback handles resp and returns after invoking a callback of the caller.
Finish(s, resp, report) ==
  [s EXCEPT !.pc = "done", !.req = NoReq, !.answered = s.pc, !.resp = resp,
            !.cb = Append(@, report), !.cl = NoClosure]

\* A callback handles resp and issues the next provider request.
Send(s, resp, pc, req, cl) ==
  [s EXCEPT !.pc = pc, !.req = req, !.answered = s.pc, !.resp = resp, !.cl = cl]

\* A callback handles resp and ends with an uncaught exception.
Throw(s, resp) ==
  [s EXCEPT !.pc = "threw", !.req = NoReq, !.answered = s.pc, !.resp = resp,
            !.cl = NoClosure]

\* onFailure with the return lost: the error is reported and the request is
\* still treated as outstanding.
onFailureWithoutReturn(s, resp) ==
  [s EXCEPT !.answered = s.pc, !.resp = resp,
            !.cb = Append(@, Report("onFailure", <<resp.err>>))]

\* if (err) { return callback.onFailure(err); }
onFailure(s, resp) == Finish(s, resp, Report("onFailure", <<resp.err>>))

\* What a callback leaves behind: the user object, the storage, the call.
Out(user, st, s) == [user |-> user, storage |-> st, slot |-> s]

----------------------------------------------------------------------------
(* The provider's answers *)

Err(e) == [err |-> e]
Data(d) == [err |-> Null, data |-> d]

IsErr(resp) == resp.err # Null

ErrorAnswers == {Err(e) : e \in ProviderErrors}

ChallengeParameters == [challenge |-> Val("challengeParameters", 1)]

SMS_MFA == Val("SMS_MFA", 0)
CUSTOM_CHALLENGE == Val("CUSTOM_CHALLENGE", 0)
DEVICE_SRP_AUTH == Val("DEVICE_SRP_AUTH", 0)
PASSWORD_VERIFIER == Val("PASSWORD_VERIFIER", 0)
DEVICE_PASSWORD_VERIFIER == Val("DEVICE_PASSWORD_VERIFIER", 0)
\* A challenge the client has no branch for.
NEW_PASSWORD_REQUIRED == Val("NEW_PASSWORD_REQUIRED", 0)

\* An answer that carries a challenge and no AuthenticationResult.
ChallengeAnswers(names) ==
  {Data([ChallengeName |-> c, Session |-> s, ChallengeParameters |-> ChallengeParameters]) :
     c \in names, s \in SessTokens}

Tokens(n, withRefresh) ==
  IF withRefresh
  THEN [IdToken |-> IdTok(n), AccessToken |-> AccTok(n), RefreshToken |-> RefTok(n)]
  ELSE [IdToken |-> IdTok(n), AccessToken |-> AccTok(n)]

NewDeviceMetadata(n) == [DeviceKey |-> DevKey(n), DeviceGroupKey |-> DevGroup(n)]

\* The answers that carry the n-th AuthenticationResult, with and without
\* NewDeviceMetadata.
ResultAnswers(n) ==
  {Data([AuthenticationResult |-> Tokens(n, TRUE)]),
   Data([AuthenticationResult |->
           Tokens(n, TRUE) @@ [NewDeviceMetadata |-> NewDeviceMetadata(n)]])}

\* The answers to REFRESH_TOKEN_AUTH: the provider may leave the refresh
\* token out of the result.
RefreshAnswers(n) ==
  {Data([AuthenticationResult |-> Tokens(n, b)]) : b \in BOOLEAN}

HasResult(resp) == ~IsErr(resp) /\ "AuthenticationResult" \in DOMAIN resp.data

\* The next AuthenticationResult, while the provider still issues one.
IfIssuing(answers) == IF issued < MaxIssue THEN answers ELSE {}

\* The answers to InitiateAuth (USER_SRP_AUTH): an error, or the SRP
\* challenge for the canonical username.
InitiateAuthAnswers(req) ==
  ErrorAnswers \cup
  {Data([ChallengeParameters |->
           [USER_ID_FOR_SRP |-> UserIdForSrp(req.AuthParameters.USERNAME),
            SRP_B |-> B, SALT |-> Salt, SECRET_BLOCK |-> SecretBlock],
         Session |-> s]) : s \in SessTokens, B \in ServerBValues}

PasswordVerifierAnswers ==
  ErrorAnswers
  \cup ChallengeAnswers({SMS_MFA, CUSTOM_CHALLENGE, DEVICE_SRP_AUTH, NEW_PASSWORD_REQUIRED})
  \cup IfIssuing(ResultAnswers(issued + 1))

DeviceSrpAuthAnswers ==
  ErrorAnswers \cup
  {Data([ChallengeParameters |->
           [SRP_B |-> B, SALT |-> Salt, SECRET_BLOCK |-> SecretBlock],
         Session |-> s]) : s \in SessTokens, B \in ServerBValues}

DevicePasswordVerifierAnswers ==
  ErrorAnswers \cup IfIssuing(ResultAnswers(issued + 1))

ConfirmDeviceAnswers ==
  ErrorAnswers \cup {Data([UserConfirmationNecessary |-> b]) : b \in BOOLEAN}

SmsMfaAnswers ==
  ErrorAnswers
  \cup ChallengeAnswers({DEVICE_SRP_AUTH, CUSTOM_CHALLENGE})
  \cup IfIssuing(ResultAnswers(issued + 1))

CustomChallengeAnswers ==
  ErrorAnswers
  \cup ChallengeAnswers({CUSTOM_CHALLENGE})
  \cup IfIssuing(ResultAnswers(issued + 1))

RefreshTokenAnswers ==
  ErrorAnswers \cup IfIssuing(RefreshAnswers(issued + 1))

----------------------------------------------------------------------------
(* authenticateUser *)

\* lines 102-119: the InitiateAuth request.
initiateAuthRequest(user) ==
  LET base == [USERNAME |-> user.username, SRP_A |-> LargeA]
  IN [api |-> "initiateAuth",
      AuthFlow |-> "USER_SRP_AUTH",
      ClientId |-> ClientId,
      AuthParameters |->
        IF ~IsNullish(user.deviceKey)
        THEN base @@ [DEVICE_KEY |-> user.deviceKey]
        ELSE base]

\* passwordVerifierRequest that reads the clock again for TIMESTAMP.
passwordVerifierRequestReadingClockAgain(self, data, signature, dateNow) ==
  [api |-> "respondToAuthChallenge",
   ChallengeName |-> PASSWORD_VERIFIER,
   ClientId |-> ClientId,
   ChallengeResponses |->
     [USERNAME |-> self.username,
      PASSWORD_CLAIM_SECRET_BLOCK |-> data.ChallengeParameters.SECRET_BLOCK,
      TIMESTAMP |-> CHOOSE t \in Timestamps : t # dateNow,
      PASSWORD_CLAIM_SIGNATURE |-> signature],
   Session |-> Get(data, "Session")]

\* lines 144-159: the PASSWORD_VERIFIER response to the SRP challenge.
passwordVerifierRequest(self, data, signature, dateNow) ==
  LET base == [USERNAME |-> self.username,
               PASSWORD_CLAIM_SECRET_BLOCK |-> data.ChallengeParameters.SECRET_BLOCK,
               TIMESTAMP |-> dateNow,
               PASSWORD_CLAIM_SIGNATURE |-> signature]
  IN [api |-> "respondToAuthChallenge",
      ChallengeName |-> PASSWORD_VERIFIER,
      ClientId |-> ClientId,
      ChallengeResponses |->
        IF ~IsNullish(self.deviceKey)
        THEN base @@ [DEVICE_KEY |-> self.deviceKey]
        ELSE base,
      Session |-> Get(data, "Session")]

\* onInitiateAuth that sends InitiateAuth again when it is answered with an
\* error.
onInitiateAuthRetrying(user, st, s, resp, dateNow) ==
  IF IsErr(resp) THEN Out(user, st, Send(s, resp, "initiateAuth", s.req, s.cl))
  ELSE
    LET cp == resp.data.ChallengeParameters
        self == getCachedDeviceKeyAndPassword(
                  st, [user EXCEPT !.username = cp.USER_ID_FOR_SRP])
        hkdf == getPasswordAuthenticationKey(
                  s.cl.pool, self.username, s.cl.password, cp.SRP_B, cp.SALT)
        signature == Signature(hkdf, PoolName, self.username, cp.SECRET_BLOCK, dateNow)
    IN Out(self, st,
           Send(s, resp, "passwordVerifier",
                passwordVerifierRequest(self, resp.data, signature, dateNow), s.cl))

\* lines 120-159: the callback of InitiateAuth.  The exception of a key
\* derivation that rejects SRP_B (line 132) is not caught: it leaves the
\* callback after the username and the cached device were assigned.
onInitiateAuth(user, st, s, resp, dateNow) ==
  IF IsErr(resp) THEN Out(user, st, onFailure(s, resp))
  ELSE
    LET cp == resp.data.ChallengeParameters
        self == getCachedDeviceKeyAndPassword(
                  st, [user EXCEPT !.username = cp.USER_ID_FOR_SRP])
        hkdf == getPasswordAuthenticationKey(
                  s.cl.pool, self.username, s.cl.password, cp.SRP_B, cp.SALT)
        signature == Signature(hkdf, PoolName, self.username, cp.SECRET_BLOCK, dateNow)
    IN IF KeyDerivationRejects(cp.SRP_B)
       THEN Out(self, st, Throw(s, resp))
       ELSE Out(self, st,
                Send(s, resp, "passwordVerifier",
                     passwordVerifierRequest(self, resp.data, signature, dateNow), s.cl))

\* challengeName != null && challengeName === name
ChallengeIs(data, name) == Get(data, "ChallengeName") = name

\* lines 167-168: SMS_MFA.
mfaRequired(user, st, s, resp) ==
  Out([user EXCEPT !.Session = Get(resp.data, "Session")], st,
      Finish(s, resp, Report("mfaRequired", <<resp.data.ChallengeName>>)))

\* lines 170-171: CUSTOM_CHALLENGE.
customChallenge(user, st, s, resp) ==
  Out([user EXCEPT !.Session = Get(resp.data, "Session")], st,
      Finish(s, resp, Report("customChallenge", <<Get(resp.data, "ChallengeParameters")>>)))

\* lines 222-236: getDeviceResponse up to its DEVICE_SRP_AUTH request; the
\* AuthenticationHelper it creates is keyed by this.deviceGroupKey.
getDeviceResponse(user, st, s, resp) ==
  Out(user, st,
      Send(s, resp, "deviceSrpAuth",
           [api |-> "respondToAuthChallenge",
            ChallengeName |-> DEVICE_SRP_AUTH,
            ClientId |-> ClientId,
            ChallengeResponses |->
              [USERNAME |-> user.username,
               DEVICE_KEY |-> user.deviceKey,
               SRP_A |-> LargeA]],
           [s.cl EXCEPT !.pool = user.deviceGroupKey]))

\* lines 190-194: the ConfirmDevice request.
confirmDeviceRequest(self, metadata) ==
  [api |-> "confirmDevice",
   DeviceKey |-> metadata.DeviceKey,
   AccessToken |-> self.signInUserSession.AccessToken,
   DeviceSecretVerifierConfig |-> DeviceSecretVerifierConfig(metadata.DeviceKey.n),
   DeviceName |-> UserAgent]

\* lines 175-209 (and again 370-405): the session is built from the
\* AuthenticationResult and cached; with NewDeviceMetadata the device
\* secrets are generated and ConfirmDevice is called, otherwise success is
\* reported.  An answer without AuthenticationResult hands undefined to
\* getCognitoUserSession: either the token constructors throw on it
\* (tolerant = FALSE), or they build empty tokens, which are cached, and
\* reading NewDeviceMetadata of undefined throws.
signIn(user, st, s, resp, tolerant) ==
  IF ~HasResult(resp)
  THEN IF tolerant
       THEN LET self == [user EXCEPT !.signInUserSession = getCognitoUserSession(<<>>)]
            IN Out(self, cacheTokens(st, self), Throw(s, resp))
       ELSE Out(user, st, Throw(s, resp))
  ELSE
    LET result == resp.data.AuthenticationResult
        self == [user EXCEPT !.signInUserSession = getCognitoUserSession(result)]
        st1 == cacheTokens(st, self)
    IN IF ~IsNullish(Get(result, "NewDeviceMetadata"))
       THEN LET metadata == result.NewDeviceMetadata
                self2 == [self EXCEPT
                            !.deviceGroupKey = metadata.DeviceGroupKey,
                            !.randomPassword = RandomPw(metadata.DeviceKey.n)]
            IN Out(self2, st1,
                   Send(s, resp, "confirmDevice",
                        confirmDeviceRequest(self2, metadata),
                        [newDevice |-> metadata] @@ s.cl))
       ELSE Out(self, st1,
                Finish(s, resp, Report("onSuccess", <<self.signInUserSession>>)))

\* lines 160-211: the callback of PASSWORD_VERIFIER.
onPasswordVerifier(user, st, s, resp, tolerant) ==
  IF IsErr(resp) THEN Out(user, st, onFailure(s, resp))
  ELSE IF ChallengeIs(resp.data, SMS_MFA) THEN mfaRequired(user, st, s, resp)
  ELSE IF ChallengeIs(resp.data, CUSTOM_CHALLENGE) THEN customChallenge(user, st, s, resp)
  ELSE IF ChallengeIs(resp.data, DEVICE_SRP_AUTH) THEN getDeviceResponse(user, st, s, resp)
  ELSE signIn(user, st, s, resp, tolerant)

\* onConfirmDevice that treats userConfirmationNecessary as a failure.
onConfirmDeviceStrict(user, st, s, resp) ==
  IF IsErr(resp) THEN Out(user, st, onFailure(s, resp))
  ELSE IF resp.data.UserConfirmationNecessary = TRUE
  THEN Out(user, st,
           Finish(s, resp, Report("onFailure", <<Val("UserConfirmationNecessary", 0)>>)))
  ELSE
    LET self == [user EXCEPT !.deviceKey = s.cl.newDevice.DeviceKey]
    IN Out(self, cacheDeviceKeyAndPassword(st, self),
           Finish(s, resp, Report("onSuccess", <<self.signInUserSession>>)))

\* lines 195-206 (and again 391-402): the callback of ConfirmDevice.
onConfirmDevice(user, st, s, resp) ==
  IF IsErr(resp) THEN Out(user, st, onFailure(s, resp))
  ELSE
    LET self == [user EXCEPT !.deviceKey = s.cl.newDevice.DeviceKey]
        st1 == cacheDeviceKeyAndPassword(st, self)
    IN IF resp.data.UserConfirmationNecessary = TRUE
       THEN Out(self, st1,
                Finish(s, resp,
                       Report("onSuccess", <<self.signInUserSession, Val("true", 0)>>)))
       ELSE Out(self, st1,
                Finish(s, resp, Report("onSuccess", <<self.signInUserSession>>)))

\* lines 259-271: the DEVICE_PASSWORD_VERIFIER response.
devicePasswordVerifierRequest(self, data, signature, dateNow) ==
  [api |-> "respondToAuthChallenge",
   ChallengeName |-> DEVICE_PASSWORD_VERIFIER,
   ClientId |-> ClientId,
   ChallengeResponses |->
     [USERNAME |-> self.username,
      PASSWORD_CLAIM_SECRET_BLOCK |-> data.ChallengeParameters.SECRET_BLOCK,
      TIMESTAMP |-> dateNow,
      PASSWORD_CLAIM_SIGNATURE |-> signature,
      DEVICE_KEY |-> self.deviceKey],
   Session |-> Get(data, "Session")]

\* deviceHkdf with the account password in place of the random password.
deviceHkdfFromAccountPassword(self, s, cp) ==
  getPasswordAuthenticationKey(s.cl.pool, self.deviceKey, s.cl.password,
                               cp.SRP_B, cp.SALT)

\* line 247: the device key is derived from the device's random password.
deviceHkdf(self, s, cp) ==
  getPasswordAuthenticationKey(s.cl.pool, self.deviceKey, self.randomPassword,
                               cp.SRP_B, cp.SALT)

\* lines 237-271: the callback of DEVICE_SRP_AUTH.
onDeviceSrpAuth(user, st, s, resp, dateNow) ==
  IF IsErr(resp) THEN Out(user, st, onFailure(s, resp))
  ELSE
    LET cp == resp.data.ChallengeParameters
        hkdf == deviceHkdf(user, s, cp)
        signature == Signature(hkdf, user.deviceGroupKey, user.deviceKey,
                               cp.SECRET_BLOCK, dateNow)
    IN IF KeyDerivationRejects(cp.SRP_B)
       THEN Out(user, st, Throw(s, resp))
       ELSE Out(user, st,
                Send(s, resp, "devicePasswordVerifier",
                     devicePasswordVerifierRequest(user, resp.data, signature, dateNow),
                     s.cl))

\* onDevicePasswordVerifier that handles the result as the
\* PASSWORD_VERIFIER callback does, new-device confirmation included.
onDevicePasswordVerifierConfirming(user, st, s, resp) ==
  IF IsErr(resp) THEN Out(user, st, onFailure(s, resp))
  ELSE signIn(user, st, s, resp, FALSE)

\* lines 272-281: the callback of DEVICE_PASSWORD_VERIFIER.
onDevicePasswordVerifier(user, st, s, resp) ==
  IF IsErr(resp) THEN Out(user, st, onFailure(s, resp))
  ELSE
    LET self == [user EXCEPT !.signInUserSession =
                   getCognitoUserSession(resp.data.AuthenticationResult)]
    IN Out(self, cacheTokens(st, self),
           Finish(s, resp, Report("onSuccess", <<self.signInUserSession>>)))

----------------------------------------------------------------------------
(* sendMFACode and sendCustomChallengeAnswer *)

\* smsMfaRequest without the Session parameter.
smsMfaRequestWithoutSession(user, confirmationCode) ==
  [api |-> "respondToAuthChallenge",
   ChallengeName |-> SMS_MFA,
   ChallengeResponses |-> [USERNAME |-> user.username, SMS_MFA_CODE |-> confirmationCode],
   ClientId |-> ClientId,
   Session |-> Undef]

\* lines 352-365: the SMS_MFA response.
smsMfaRequest(user, confirmationCode) ==
  LET base == [USERNAME |-> user.username, SMS_MFA_CODE |-> confirmationCode]
  IN [api |-> "respondToAuthChallenge",
      ChallengeName |-> SMS_MFA,
      ChallengeResponses |->
        IF ~IsNullish(user.deviceKey)
        THEN base @@ [DEVICE_KEY |-> user.deviceKey]
        ELSE base,
      ClientId |-> ClientId,
      Session |-> user.Session]

\* lines 366-407: the callback of SMS_MFA.
onSmsMfa(user, st, s, resp, tolerant) ==
  IF IsErr(resp) THEN Out(user, st, onFailure(s, resp))
  ELSE signIn(user, st, s, resp, tolerant)

\* lines 316-325: the CUSTOM_CHALLENGE response.
customChallengeRequest(user, answerChallenge) ==
  [api |-> "respondToAuthChallenge",
   ChallengeName |-> CUSTOM_CHALLENGE,
   ChallengeResponses |-> [USERNAME |-> user.username, ANSWER |-> answerChallenge],
   ClientId |-> ClientId,
   Session |-> user.Session]

\* lines 326-341: the callback of CUSTOM_CHALLENGE.  It reads
\* data.challengeParameters, which the answer (ChallengeParameters) lacks.
onCustomChallenge(user, st, s, resp) ==
  IF IsErr(resp) THEN Out(user, st, onFailure(s, resp))
  ELSE IF ChallengeIs(resp.data, CUSTOM_CHALLENGE)
  THEN Out([user EXCEPT !.Session = Get(resp.data, "Session")], st,
           Finish(s, resp,
                  Report("customChallenge", <<Get(resp.data, "challengeParameters")>>)))
  ELSE
    LET self == [user EXCEPT !.signInUserSession =
                   getCognitoUserSession(resp.data.AuthenticationResult)]
    IN Out(self, cacheTokens(st, self),
           Finish(s, resp, Report("onSuccess", <<self.signInUserSession>>)))

----------------------------------------------------------------------------
(* getSession and refreshSession *)

\* lines 670-686: refreshSession up to its InitiateAuth request.  When a
\* LastAuthUser is cached, this.username and this.deviceKey are overwritten
\* from the cache and DEVICE_KEY is sent.
refreshSession(op, user, st, refreshToken) ==
  LET last == getItem(st, LastUserKey)
      self == IF Truthy(last)
              THEN [user EXCEPT
                      !.username = last,
                      !.deviceKey = getItem(st, UserKey(last, "deviceKey"))]
              ELSE user
      base == [REFRESH_TOKEN |-> refreshToken]
  IN Out(self, st,
         Start(op, "refreshToken",
               [api |-> "initiateAuth",
                ClientId |-> ClientId,
                AuthFlow |-> "REFRESH_TOKEN_AUTH",
                AuthParameters |->
                  IF Truthy(last) THEN base @@ [DEVICE_KEY |-> self.deviceKey] ELSE base],
               [refreshToken |-> refreshToken]))

\* withRefreshToken that keeps the result as the provider sent it.
withRefreshTokenDropped(result, refreshToken) == result

\* lines 692-694: a result without RefreshToken gets the one passed in.
withRefreshToken(result, refreshToken) ==
  IF "RefreshToken" \notin DOMAIN result
  THEN [RefreshToken |-> refreshToken] @@ result
  ELSE result

\* lines 687-699: the callback of REFRESH_TOKEN_AUTH.
onRefreshToken(user, st, s, resp) ==
  IF IsErr(resp)
  THEN Out(user, st, Finish(s, resp, Report("callback", <<resp.err, Null>>)))
  ELSE
    LET result == withRefreshToken(resp.data.AuthenticationResult, s.cl.refreshToken)
        self == [user EXCEPT !.signInUserSession = getCognitoUserSession(result)]
    IN Out(self, cacheTokens(st, self),
           Finish(s, resp, Report("callback", <<Null, self.signInUserSession>>)))

\* cachedSession that does not read the cached refresh token.
cachedSessionWithoutRefreshToken(user, st) ==
  getCognitoUserSession(
    [IdToken |-> getItem(st, UserKey(user.username, "idToken")),
     AccessToken |-> getItem(st, UserKey(user.username, "accessToken")),
     RefreshToken |-> Null])

\* lines 638-647: the session rebuilt from the three cached tokens.
cachedSession(user, st) ==
  getCognitoUserSession(
    [IdToken |-> getItem(st, UserKey(user.username, "idToken")),
     AccessToken |-> getItem(st, UserKey(user.username, "accessToken")),
     RefreshToken |-> getItem(st, UserKey(user.username, "refreshToken"))])

\* lines 622-659: getSession.
getSession(user, st) ==
  IF IsNullish(user.username)
  THEN Out(user, st, Returned("getSession", Report("callback", <<UsernameIsNull, Null>>)))
  ELSE IF HasValidSession(user)
  THEN Out(user, st,
           Returned("getSession", Report("callback", <<Null, user.signInUserSession>>)))
  ELSE IF Truthy(getItem(st, UserKey(user.username, "idToken")))
  THEN IF isValid(cachedSession(user, st))
       THEN Out([user EXCEPT !.signInUserSession = cachedSession(user, st)], st,
                Returned("getSession",
                         Report("callback", <<Null, cachedSession(user, st)>>)))
       ELSE IF ~IsNullish(cachedSession(user, st).RefreshToken)
       THEN refreshSession("getSession", user, st, cachedSession(user, st).RefreshToken)
       ELSE Out(user, st,
                Returned("getSession", Report("callback", <<PleaseAuthenticate, Null>>)))
  ELSE Out(user, st, Silent("getSession"))

----------------------------------------------------------------------------
(* The protected operations: each sends the access token of the current    *)
(* session.  ErrorChannel is how the operation reports a provider error:   *)
(* callback(err, null) or callback.onFailure(err).                         *)

ErrorChannel ==
  [changePassword |-> "callback",
   enableMFA |-> "callback",
   disableMFA |-> "callback",
   deleteUser |-> "callback",
   updateAttributes |-> "callback",
   getUserAttributes |-> "callback",
   deleteAttributes |-> "callback",
   getAttributeVerificationCode |-> "onFailure",
   verifyAttribute |-> "onFailure",
   getDevice |-> "onFailure",
   forgetDevice |-> "onFailure",
   setDeviceStatusRemembered |-> "onFailure",
   setDeviceStatusNotRemembered |-> "onFailure",
   listDevices |-> "onFailure",
   globalSignOut |-> "onFailure"]

ProtectedOps == DOMAIN ErrorChannel

DeviceOps == {"getDevice", "forgetDevice", "setDeviceStatusRemembered",
              "setDeviceStatusNotRemembered"}

\* How the operation reports success.
SuccessChannel(op) ==
  IF ErrorChannel[op] = "callback" THEN "callback"
  ELSE IF op = "getAttributeVerificationCode" THEN "inputVerificationCode"
  ELSE "onSuccess"

\* The request of a protected operation.
protectedRequest(op, user) ==
  LET base == [api |-> op, AccessToken |-> user.signInUserSession.AccessToken]
  IN IF op \in DeviceOps THEN base @@ [DeviceKey |-> user.deviceKey] ELSE base

\* return callback(new Error('User is not authenticated'), null): the
\* callback is invoked as a function.  A caller of an operation that reports
\* through callback.onFailure passes an object, and calling it throws.
notAuthenticated(op) ==
  IF ErrorChannel[op] = "callback"
  THEN Returned(op, Report("callback", <<NotAuthenticated, Null>>))
  ELSE Thrown(op)

\* A protected operation is called: e.g. lines 418-434, 940-960, 1046-1062.
protectedCall(op, user, st) ==
  IF HasValidSession(user)
  THEN Out(user, st, Start(op, "protected", protectedRequest(op, user), NoClosure))
  ELSE Out(user, st, notAuthenticated(op))

\* The callback of a protected operation's request.  forgetDevice (lines
\* 950-953) assigns null to deviceKey, to a property named deviceGroupkey and
\* to randomPassword, so deviceGroupKey keeps its value; globalSignOut (line
\* 1055) clears the cached tokens.
onProtected(user, st, s, resp) ==
  IF IsErr(resp)
  THEN Out(user, st,
           Finish(s, resp,
                  IF ErrorChannel[s.op] = "callback"
                  THEN Report("callback", <<resp.err, Null>>)
                  ELSE Report("onFailure", <<resp.err>>)))
  ELSE
    LET done == Finish(s, resp,
                       IF SuccessChannel(s.op) = "callback"
                       THEN Report("callback", <<Null, Val("SUCCESS", 0)>>)
                       ELSE Report(SuccessChannel(s.op), <<Val("SUCCESS", 0)>>))
    IN IF s.op = "forgetDevice"
       THEN Out([user EXCEPT !.deviceKey = Null, !.randomPassword = Null],
                clearCachedDeviceKeyAndPassword(st, user), done)
       ELSE IF s.op = "globalSignOut"
       THEN Out(user, clearCachedTokens(st, user), done)
       ELSE Out(user, st, done)

\* lines 1069-1072: signOut.
signOut(user, st) ==
  Out([user EXCEPT !.signInUserSession = Null], clearCachedTokens(st, user), Idle)

----------------------------------------------------------------------------
(* The state machine *)

Objects == {"u1"}

\* lines 36-49: the constructor; deviceKey, deviceGroupKey and
\* randomPassword are not assigned and read as undefined.
NewUser(name) ==
  [username |-> name, Session |-> Null, signInUserSession |-> Null,
   deviceKey |-> Undef, deviceGroupKey |-> Undef, randomPassword |-> Undef]

Init ==
  /\ users = [u \in Objects |-> NewUser(Alias)]
  /\ storage = <<>>
  /\ slot = [u \in Objects |-> Idle]
  /\ issued = 0
  /\ expired = 0

\* The outcome of a step on object u.
Apply(u, out) ==
  /\ users' = [users EXCEPT ![u] = out.user]
  /\ storage' = out.storage
  /\ slot' = [slot EXCEPT ![u] = out.slot]

\* The provider issues an AuthenticationResult in the answer.
Issue(resp) == issued' = IF HasResult(resp) THEN issued + 1 ELSE issued

CallAuthenticateUser(u) ==
  /\ Settled(slot[u])
  /\ \E password \in Passwords :
       Apply(u, Out(users[u], storage,
                    Start("authenticateUser", "initiateAuth",
                          initiateAuthRequest(users[u]),
                          [password |-> password, pool |-> PoolName])))
  /\ UNCHANGED <<issued, expired>>

InitiateAuthCallback(u) ==
  /\ slot[u].pc = "initiateAuth"
  /\ \E resp \in InitiateAuthAnswers(slot[u].req), dateNow \in Timestamps :
       Apply(u, onInitiateAuth(users[u], storage, slot[u], resp, dateNow))
  /\ UNCHANGED <<issued, expired>>

PasswordVerifierCallback(u) ==
  /\ slot[u].pc = "passwordVerifier"
  /\ \E resp \in PasswordVerifierAnswers, tolerant \in BOOLEAN :
       /\ Apply(u, onPasswordVerifier(users[u], storage, slot[u], resp, tolerant))
       /\ Issue(resp)
  /\ UNCHANGED expired

ConfirmDeviceCallback(u) ==
  /\ slot[u].pc = "confirmDevice"
  /\ \E resp \in ConfirmDeviceAnswers :
       Apply(u, onConfirmDevice(users[u], storage, slot[u], resp))
  /\ UNCHANGED <<issued, expired>>

DeviceSrpAuthCallback(u) ==
  /\ slot[u].pc = "deviceSrpAuth"
  /\ \E resp \in DeviceSrpAuthAnswers, dateNow \in Timestamps :
       Apply(u, onDeviceSrpAuth(users[u], storage, slot[u], resp, dateNow))
  /\ UNCHANGED <<issued, expired>>

DevicePasswordVerifierCallback(u) ==
  /\ slot[u].pc = "devicePasswordVerifier"
  /\ \E resp \in DevicePasswordVerifierAnswers :
       /\ Apply(u, onDevicePasswordVerifier(users[u], storage, slot[u], resp))
       /\ Issue(resp)
  /\ UNCHANGED expired

\* The application answers an SMS_MFA challenge: it calls sendMFACode after
\* mfaRequired was reported to it.
CallSendMFACode(u) ==
  /\ EndedWith(slot[u], "mfaRequired")
  /\ \E confirmationCode \in MfaCodes :
       Apply(u, Out(users[u], storage,
                    Start("sendMFACode", "smsMfa",
                          smsMfaRequest(users[u], confirmationCode), NoClosure)))
  /\ UNCHANGED <<issued, expired>>

SmsMfaCallback(u) ==
  /\ slot[u].pc = "smsMfa"
  /\ \E resp \in SmsMfaAnswers, tolerant \in BOOLEAN :
       /\ Apply(u, onSmsMfa(users[u], storage, slot[u], resp, tolerant))
       /\ Issue(resp)
  /\ UNCHANGED expired

\* The application answers a custom challenge: it calls
\* sendCustomChallengeAnswer after customChallenge was reported to it.
CallSendCustomChallengeAnswer(u) ==
  /\ EndedWith(slot[u], "customChallenge")
  /\ \E answerChallenge \in Answers :
       Apply(u, Out(users[u], storage,
                    Start("sendCustomChallengeAnswer", "customChallenge",
                          customChallengeRequest(users[u], answerChallenge),
                          NoClosure)))
  /\ UNCHANGED <<issued, expired>>

CustomChallengeCallback(u) ==
  /\ slot[u].pc = "customChallenge"
  /\ \E resp \in CustomChallengeAnswers :
       /\ Apply(u, onCustomChallenge(users[u], storage, slot[u], resp))
       /\ Issue(resp)
  /\ UNCHANGED expired

CallGetSession(u) ==
  /\ Settled(slot[u])
  /\ Apply(u, getSession(users[u], storage))
  /\ UNCHANGED <<issued, expired>>

\* refreshSession called by the application with the refresh token of the
\* current session.
CallRefreshSession(u) ==
  /\ Settled(slot[u])
  /\ ~IsNullish(users[u].signInUserSession)
  /\ Apply(u, refreshSession("refreshSession", users[u], storage,
                             users[u].signInUserSession.RefreshToken))
  /\ UNCHANGED <<issued, expired>>

RefreshTokenCallback(u) ==
  /\ slot[u].pc = "refreshToken"
  /\ \E resp \in RefreshTokenAnswers :
       /\ Apply(u, onRefreshToken(users[u], storage, slot[u], resp))
       /\ Issue(resp)
  /\ UNCHANGED expired

CallProtected(u) ==
  /\ Settled(slot[u])
  /\ \E op \in ProtectedOps : Apply(u, protectedCall(op, users[u], storage))
  /\ UNCHANGED <<issued, expired>>

ProtectedCallback(u) ==
  /\ slot[u].pc = "protected"
  /\ \E resp \in ErrorAnswers \cup {Data([ok |-> TRUE])} :
       Apply(u, onProtected(users[u], storage, slot[u], resp))
  /\ UNCHANGED <<issued, expired>>

\* signOut is synchronous and may be called while a request is outstanding.
CallSignOut(u) ==
  /\ users' = [users EXCEPT ![u] = signOut(users[u], storage).user]
  /\ storage' = signOut(users[u], storage).storage
  /\ UNCHANGED <<slot, issued, expired>>

\* Time passes the expiry claims of the oldest tokens still valid: tokens
\* have one lifetime, so they expire in the order they were issued.
Expire ==
  /\ expired < issued
  /\ expired' = expired + 1
  /\ UNCHANGED <<users, storage, slot, issued>>

Next ==
  \/ \E u \in Objects :
       \/ CallAuthenticateUser(u)
       \/ InitiateAuthCallback(u)
       \/ PasswordVerifierCallback(u)
       \/ ConfirmDeviceCallback(u)
       \/ DeviceSrpAuthCallback(u)
       \/ DevicePasswordVerifierCallback(u)
       \/ CallSendMFACode(u)
       \/ SmsMfaCallback(u)
       \/ CallSendCustomChallengeAnswer(u)
       \/ CustomChallengeCallback(u)
       \/ CallGetSession(u)
       \/ CallRefreshSession(u)
       \/ RefreshTokenCallback(u)
       \/ CallProtected(u)
       \/ ProtectedCallback(u)
       \/ CallSignOut(u)
  \/ Expire

Spec == Init /\ [][Next]_vars

\* The cache a sign-in of Alice left: the tokens of the AuthenticationResult
\* numbered n, the refresh token present or not.
AliceCache(n, withRefresh) ==
  LET s1 == setItem(<<>>, UserKey(Alice, "idToken"), IdTok(n))
      s2 == setItem(s1, UserKey(Alice, "accessToken"), AccTok(n))
  IN IF withRefresh
     THEN setItem(s2, UserKey(Alice, "refreshToken"), RefTok(n))
     ELSE s2

\* A browser that holds a cache from an earlier run: the user object is
\* constructed for the cached user Alice.  LastAuthUser is absent or Alice,
\* and her tokens are those of the first AuthenticationResult; or it is Bob,
\* who signed in after her in this browser (cacheTokens of his user object)
\* with the first AuthenticationResult that can still be valid, her tokens
\* being older than that and expired.
InitResume ==
  /\ users = [u \in Objects |-> NewUser(Alice)]
  /\ slot = [u \in Objects |-> Idle]
  /\ expired \in {0, 1}
  /\ issued = 1
  /\ \E withRefresh \in BOOLEAN, last \in {Null, Alice, Bob} :
       storage =
         IF last = Bob
         THEN cacheTokens(AliceCache(0, withRefresh),
                          [NewUser(Bob) EXCEPT !.signInUserSession =
                             getCognitoUserSession(Tokens(1, TRUE))])
         ELSE IF last = Alice
         THEN setItem(AliceCache(1, withRefresh), LastUserKey, Alice)
         ELSE AliceCache(1, withRefresh)

SpecResume == InitResume /\ [][Next]_vars

----------------------------------------------------------------------------
(* The claims *)

\* The session an AuthenticationResult carries.
SessionOf(result) ==
  [IdToken |-> Get(result, "IdToken"),
   AccessToken |-> Get(result, "AccessToken"),
   RefreshToken |-> Get(result, "RefreshToken")]

\* The cache holds the three tokens of session under the keys of name.
Cached(st, name, session) ==
  /\ getItem(st, UserKey(name, "idToken")) = session.IdToken
  /\ getItem(st, UserKey(name, "accessToken")) = session.AccessToken
  /\ getItem(st, UserKey(name, "refreshToken")) = session.RefreshToken

\* The step in which the callback waiting at pc on object u runs.
CallbackRuns(u, pc) == slot[u].pc = pc /\ slot'[u].pc # pc

\* The answer carries an AuthenticationResult without NewDeviceMetadata.
PlainResult(resp) ==
  /\ HasResult(resp)
  /\ "NewDeviceMetadata" \notin DOMAIN resp.data.AuthenticationResult

\* C1: when authenticateUser's PASSWORD_VERIFIER answer carries no challenge
\* name and no new-device metadata, the callback reports onSuccess, once,
\* with a session of exactly the three tokens of the AuthenticationResult,
\* and at that moment the cache holds these tokens under the keys of the
\* current username and LastAuthUser is the current username.
C1_SuccessIsCached ==
  [][\A u \in Objects :
       (/\ slot[u].op = "authenticateUser"
        /\ CallbackRuns(u, "passwordVerifier")
        /\ PlainResult(slot'[u].resp))
       =>
       LET session == SessionOf(slot'[u].resp.data.AuthenticationResult) IN
       /\ slot'[u].pc = "done"
       /\ slot'[u].cb = <<Report("onSuccess", <<session>>)>>
       /\ session.IdToken.k = "id" /\ session.AccessToken.k = "acc"
       /\ session.RefreshToken.k = "ref"
       /\ users'[u].signInUserSession = session
       /\ Cached(storage', users'[u].username, session)
       /\ getItem(storage', LastUserKey) = users'[u].username]_vars

C1_Witness ==
  \E u \in Objects :
    /\ slot[u].op = "authenticateUser"
    /\ slot[u].answered = "passwordVerifier"
    /\ PlainResult(slot[u].resp)
    /\ EndedWith(slot[u], "onSuccess")
    /\ Cached(storage, users[u].username,
              SessionOf(slot[u].resp.data.AuthenticationResult))
    /\ getItem(storage, LastUserKey) = users[u].username

\* The requests of the authentication calls: InitiateAuth and
\* RespondToAuthChallenge.
AuthRequests ==
  {"initiateAuth", "passwordVerifier", "deviceSrpAuth", "devicePasswordVerifier",
   "smsMfa", "customChallenge", "refreshToken"}

\* C2: once InitiateAuth or RespondToAuthChallenge has answered an
\* authentication call with an error, the call is over: the error was
\* reported to the caller exactly once, and no provider request of the call
\* is outstanding (no retry, no later step).
C2_ErrorIsTerminal ==
  \A u \in Objects :
    (slot[u].answered \in AuthRequests /\ IsErr(slot[u].resp))
    =>
    /\ slot[u].pc = "done"
    /\ slot[u].req = NoReq
    /\ Len(slot[u].cb) = 1
    /\ \/ slot[u].cb[1] = Report("onFailure", <<slot[u].resp.err>>)
       \/ slot[u].cb[1] = Report("callback", <<slot[u].resp.err, Null>>)

C2_Witness ==
  \E u \in Objects :
    /\ slot[u].op = "authenticateUser"
    /\ slot[u].answered = "devicePasswordVerifier"
    /\ IsErr(slot[u].resp)
    /\ slot[u].cb = <<Report("onFailure", <<slot[u].resp.err>>)>>

\* C3: when the PASSWORD_VERIFIER answer is the SMS_MFA challenge, its
\* session token is stored, mfaRequired is reported and the current session
\* is left as it was; the sendMFACode that follows sends that session token;
\* when the provider rejects the code, onFailure is reported and neither the
\* current session nor the cache changes; when it accepts, the current
\* session is the returned tokens and they are cached.
C3_MfaScenario ==
  [][\A u \in Objects :
       /\ (/\ slot[u].op = "authenticateUser"
           /\ CallbackRuns(u, "passwordVerifier")
           /\ ~IsErr(slot'[u].resp)
           /\ ChallengeIs(slot'[u].resp.data, SMS_MFA))
          =>
          /\ users'[u].Session = slot'[u].resp.data.Session
          /\ slot'[u].pc = "done"
          /\ slot'[u].cb = <<Report("mfaRequired", <<SMS_MFA>>)>>
          /\ users'[u].signInUserSession = users[u].signInUserSession
          /\ storage' = storage
       /\ (EndedWith(slot[u], "mfaRequired") /\ slot'[u].op = "sendMFACode")
          =>
          /\ slot'[u].req.ChallengeName = SMS_MFA
          /\ slot'[u].req.Session = slot[u].resp.data.Session
       /\ (CallbackRuns(u, "smsMfa") /\ IsErr(slot'[u].resp))
          =>
          /\ slot'[u].cb = <<Report("onFailure", <<slot'[u].resp.err>>)>>
          /\ users'[u].signInUserSession = users[u].signInUserSession
          /\ storage' = storage
       /\ (CallbackRuns(u, "smsMfa") /\ HasResult(slot'[u].resp))
          =>
          LET session == SessionOf(slot'[u].resp.data.AuthenticationResult) IN
          /\ users'[u].signInUserSession = session
          /\ Cached(storage', users'[u].username, session)
          /\ ~EndedWith(slot'[u], "onFailure")]_vars

C3_Witness ==
  \E u \in Objects :
    /\ slot[u].op = "sendMFACode"
    /\ slot[u].answered = "smsMfa"
    /\ PlainResult(slot[u].resp)
    /\ EndedWith(slot[u], "onSuccess")
    /\ users[u].signInUserSession = SessionOf(slot[u].resp.data.AuthenticationResult)
    /\ Cached(storage, users[u].username, users[u].signInUserSession)

\* The outstanding request of u is the DEVICE_PASSWORD_VERIFIER response.
SendsDevicePasswordVerifier(u) ==
  /\ slot[u].req.api = "respondToAuthChallenge"
  /\ slot[u].req.ChallengeName = DEVICE_PASSWORD_VERIFIER

\* The device identity confirmed last for name: the cache holds the
\* identity of the n-th AuthenticationResult's NewDeviceMetadata.
ConfirmedDevice(name, n) ==
  /\ getItem(storage, UserKey(name, "deviceKey")) = DevKey(n)
  /\ getItem(storage, UserKey(name, "deviceGroupKey")) = DevGroup(n)
  /\ getItem(storage, UserKey(name, "randomPasswordKey")) = RandomPw(n)

\* C4: while the cache holds a confirmed device identity for the canonical
\* username, an authenticateUser that was answered DEVICE_SRP_AUTH responds
\* with DEVICE_PASSWORD_VERIFIER signed by a key derived from the
\* randomPassword of that confirmation (not the account password), with the
\* confirmed deviceKey as username and the confirmed deviceGroupKey as pool.
C4_DeviceKeyFromRandomPassword ==
  \A u \in Objects :
    (/\ SendsDevicePasswordVerifier(u)
     /\ Truthy(getItem(storage, UserKey(users[u].username, "deviceKey"))))
    =>
    \E n \in 1..issued :
      LET key == slot[u].req.ChallengeResponses.PASSWORD_CLAIM_SIGNATURE.key IN
      /\ ConfirmedDevice(users[u].username, n)
      /\ key.password = RandomPw(n)
      /\ key.password \notin Passwords
      /\ key.username = DevKey(n)
      /\ key.pool = DevGroup(n)
      /\ users[u].username = Alice

C4_Witness ==
  \E u \in Objects :
    /\ SendsDevicePasswordVerifier(u)
    /\ ConfirmedDevice(users[u].username, 1)
    /\ slot[u].req.ChallengeResponses.PASSWORD_CLAIM_SIGNATURE.key.password = RandomPw(1)

\* The step in which getSession is called on u.
GetSessionCalled(u) ==
  /\ Settled(slot[u])
  /\ slot'[u].op = "getSession"
  /\ slot'[u].answered = "none"
  /\ slot'[u] # slot[u]

\* C5: getSession with a cached ID token for (clientId, username) and no
\* valid current session: a valid session rebuilt from the cache becomes the
\* current session and is returned without a provider request; otherwise,
\* with a cached refresh token, one InitiateAuth with REFRESH_TOKEN_AUTH is
\* issued and nothing is reported yet; otherwise the caller is told to
\* authenticate and no request is issued.
C5_Resume ==
  [][\A u \in Objects :
       (/\ GetSessionCalled(u)
        /\ ~HasValidSession(users[u])
        /\ Truthy(getItem(storage, UserKey(users[u].username, "idToken"))))
       =>
       LET name == users[u].username
           rebuilt == [IdToken |-> getItem(storage, UserKey(name, "idToken")),
                       AccessToken |-> getItem(storage, UserKey(name, "accessToken")),
                       RefreshToken |-> getItem(storage, UserKey(name, "refreshToken"))]
       IN IF isValid(rebuilt)
          THEN /\ users'[u].signInUserSession = rebuilt
               /\ slot'[u].pc = "done"
               /\ slot'[u].req = NoReq
               /\ slot'[u].cb = <<Report("callback", <<Null, rebuilt>>)>>
          ELSE IF rebuilt.RefreshToken # Null
          THEN /\ slot'[u].pc = "refreshToken"
               /\ slot'[u].req.api = "initiateAuth"
               /\ slot'[u].req.AuthFlow = "REFRESH_TOKEN_AUTH"
               /\ slot'[u].req.AuthParameters.REFRESH_TOKEN = rebuilt.RefreshToken
               /\ slot'[u].cb = <<>>
          ELSE /\ slot'[u].pc = "done"
               /\ slot'[u].req = NoReq
               /\ slot'[u].cb = <<Report("callback", <<PleaseAuthenticate, Null>>)>>
               /\ users'[u].signInUserSession = users[u].signInUserSession]_vars

C5_Witness ==
  \E u \in Objects :
    /\ slot[u].op = "getSession"
    /\ slot[u].pc = "refreshToken"
    /\ slot[u].req.AuthFlow = "REFRESH_TOKEN_AUTH"
    /\ slot[u].req.AuthParameters.REFRESH_TOKEN =
         getItem(storage, UserKey(users[u].username, "refreshToken"))
    /\ Truthy(getItem(storage, UserKey(users[u].username, "idToken")))

\* C6: every getSession call that has returned with no request outstanding
\* has invoked its callback exactly once, with a session or an error.
C6_GetSessionAnswers ==
  \A u \in Objects :
    (slot[u].op = "getSession" /\ slot[u].pc = "done") => Len(slot[u].cb) = 1

\* A refresh token was passed to the refreshSession outstanding on u (the
\* caller did not pass a token object without a token).
RefreshTokenPassed(u) == ~IsNullish(slot[u].req.AuthParameters.REFRESH_TOKEN)

\* C7: after a successful refresh whose AuthenticationResult carries no
\* RefreshToken, the current session and the cached refreshToken entry hold
\* the refresh token passed to refreshSession; a RefreshToken in the result
\* is the one used.
C7_RefreshTokenRetained ==
  [][\A u \in Objects :
       (/\ CallbackRuns(u, "refreshToken")
        /\ HasResult(slot'[u].resp)
        /\ RefreshTokenPassed(u))
       =>
       LET result == slot'[u].resp.data.AuthenticationResult
           expected == IF "RefreshToken" \in DOMAIN result
                       THEN result.RefreshToken
                       ELSE slot[u].req.AuthParameters.REFRESH_TOKEN
       IN /\ users'[u].signInUserSession.RefreshToken = expected
          /\ users'[u].signInUserSession.IdToken = result.IdToken
          /\ getItem(storage', UserKey(users'[u].username, "refreshToken")) = expected
          /\ slot'[u].cb = <<Report("callback", <<Null, users'[u].signInUserSession>>)>>]_vars

C7_Witness ==
  \E u \in Objects :
    /\ slot[u].answered = "refreshToken"
    /\ HasResult(slot[u].resp)
    /\ "RefreshToken" \notin DOMAIN slot[u].resp.data.AuthenticationResult
    /\ ~IsNullish(users[u].signInUserSession)
    /\ users[u].signInUserSession.RefreshToken.k = "ref"
    /\ users[u].signInUserSession.IdToken = slot[u].resp.data.AuthenticationResult.IdToken
    /\ getItem(storage, UserKey(users[u].username, "refreshToken"))
         = users[u].signInUserSession.RefreshToken

\* C8: a call whose ConfirmDevice request was answered with an error does
\* not end in failure: it reports the session through onSuccess.
C8_ConfirmErrorNotFatal ==
  \A u \in Objects :
    (slot[u].answered = "confirmDevice" /\ IsErr(slot[u].resp))
    =>
    /\ slot[u].pc = "done"
    /\ slot[u].cb[Len(slot[u].cb)].chan = "onSuccess"

\* The call that finished last on u was refused for lack of a valid session.
Refused(u) ==
  /\ slot[u].op \in ProtectedOps
  /\ Settled(slot[u])
  /\ slot[u].answered = "none"

\* C9: a protected operation called without a valid session reports the
\* not-authenticated error through the channel on which the operation
\* reports provider errors, and issues no request.
C9_NotAuthenticatedReported ==
  \A u \in Objects :
    Refused(u)
    =>
    /\ slot[u].pc = "done"
    /\ slot[u].req = NoReq
    /\ slot[u].cb =
         <<IF ErrorChannel[slot[u].op] = "callback"
           THEN Report("callback", <<NotAuthenticated, Null>>)
           ELSE Report("onFailure", <<NotAuthenticated>>)>>

\* The PASSWORD_VERIFIER answer named a challenge the client has no branch for.
UnexpectedChallenge(u) ==
  /\ slot[u].answered = "passwordVerifier"
  /\ ~IsErr(slot[u].resp)
  /\ Get(slot[u].resp.data, "ChallengeName")
       \notin {Undef, SMS_MFA, CUSTOM_CHALLENGE, DEVICE_SRP_AUTH}

\* C10: an unexpected challenge name in the PASSWORD_VERIFIER answer is
\* fatal for the call: it ends with the failure reported to the caller.
C10_UnexpectedChallengeFails ==
  \A u \in Objects :
    UnexpectedChallenge(u)
    =>
    /\ slot[u].pc = "done"
    /\ slot[u].cb # <<>>
    /\ slot[u].cb[Len(slot[u].cb)].chan = "onFailure"

\* The cache has no entry under key.
Absent(st, key) == key \notin DOMAIN st

\* C11: when signOut returns, the in-memory session of the user object is
\* null and the cache has no idToken, accessToken or refreshToken entry for
\* (clientId, username) and no LastAuthUser entry, whatever came before,
\* a provider request of the object being outstanding or not.
C11_SignOutClears ==
  [][\A u \in Objects :
       CallSignOut(u)
       =>
       /\ users'[u].signInUserSession = Null
       /\ Absent(storage', UserKey(users'[u].username, "idToken"))
       /\ Absent(storage', UserKey(users'[u].username, "accessToken"))
       /\ Absent(storage', UserKey(users'[u].username, "refreshToken"))
       /\ Absent(storage', LastUserKey)
       /\ users'[u].username = users[u].username]_vars

\* signOut has acted after a sign-in that had set the session and filled
\* the cache: the last call on the object reported onSuccess, which nothing
\* but signOut undoes without starting a call of its own.
C11_Witness ==
  \E u \in Objects :
    /\ slot[u].answered = "passwordVerifier"
    /\ PlainResult(slot[u].resp)
    /\ EndedWith(slot[u], "onSuccess")
    /\ users[u].signInUserSession = Null
    /\ Absent(storage, UserKey(users[u].username, "idToken"))
    /\ Absent(storage, LastUserKey)

\* The forgetDevice call on u was answered without an error.
ForgetDeviceSucceeded(u) ==
  /\ slot[u].op = "forgetDevice"
  /\ slot[u].answered = "protected"
  /\ ~IsErr(slot[u].resp)

\* C12: after forgetDevice succeeds the whole device identity is gone: the
\* object's deviceKey, deviceGroupKey and randomPassword are null and the
\* cache has no deviceKey, deviceGroupKey or randomPasswordKey entry for
\* (clientId, username).
C12_ForgetDeviceClears ==
  \A u \in Objects :
    ForgetDeviceSucceeded(u)
    =>
    /\ IsNullish(users[u].deviceKey)
    /\ IsNullish(users[u].deviceGroupKey)
    /\ IsNullish(users[u].randomPassword)
    /\ Absent(storage, UserKey(users[u].username, "deviceKey"))
    /\ Absent(storage, UserKey(users[u].username, "deviceGroupKey"))
    /\ Absent(storage, UserKey(users[u].username, "randomPasswordKey"))

\* C13: the username of a user object changes only through server-driven
\* normalization, when the callback of authenticateUser's InitiateAuth
\* assigns USER_ID_FOR_SRP of a successful answer; every other step
\* (getSession, refreshSession, sendMFACode, sendCustomChallengeAnswer,
\* signOut, the other callbacks) leaves it unchanged.
C13_UsernameOnlyNormalized ==
  [][\A u \in Objects :
       users'[u].username # users[u].username
       =>
       /\ slot[u].op = "authenticateUser"
       /\ slot[u].pc = "initiateAuth"
       /\ slot'[u].answered = "initiateAuth"
       /\ ~IsErr(slot'[u].resp)
       /\ users'[u].username = slot'[u].resp.data.ChallengeParameters.USER_ID_FOR_SRP]_vars

\* C14: the answer to sendMFACode's SMS_MFA response is branched on as the
\* answer to PASSWORD_VERIFIER is: DEVICE_SRP_AUTH enters the device
\* sub-flow (the DEVICE_SRP_AUTH request is sent), CUSTOM_CHALLENGE stores
\* the provider session and reports customChallenge, and no challenge name
\* signs the user in.
C14_SmsMfaBranchesAsPasswordVerifier ==
  \A u \in Objects :
    (slot[u].answered = "smsMfa" /\ ~IsErr(slot[u].resp))
    =>
    IF ChallengeIs(slot[u].resp.data, DEVICE_SRP_AUTH)
    THEN /\ slot[u].pc = "deviceSrpAuth"
         /\ slot[u].req.ChallengeName = DEVICE_SRP_AUTH
    ELSE IF ChallengeIs(slot[u].resp.data, CUSTOM_CHALLENGE)
    THEN EndedWith(slot[u], "customChallenge")
    ELSE \/ EndedWith(slot[u], "onSuccess")
         \/ slot[u].pc = "confirmDevice"

\* The device identity of a user object and of its cache entries.
DeviceIdentity(user, st) ==
  <<user.deviceKey, user.deviceGroupKey, user.randomPassword,
    getItem(st, UserKey(user.username, "deviceKey")),
    getItem(st, UserKey(user.username, "deviceGroupKey")),
    getItem(st, UserKey(user.username, "randomPasswordKey"))>>

\* C15: a successful DEVICE_PASSWORD_VERIFIER answer ends the attempt at
\* once: the session is set, cached and reported with onSuccess, no
\* ConfirmDevice (nor any other request) is sent, and no device identity is
\* generated or persisted, NewDeviceMetadata in the result or not.
C15_DeviceFlowNeverConfirms ==
  [][\A u \in Objects :
       (CallbackRuns(u, "devicePasswordVerifier") /\ HasResult(slot'[u].resp))
       =>
       LET session == SessionOf(slot'[u].resp.data.AuthenticationResult) IN
       /\ slot'[u].pc = "done"
       /\ slot'[u].req = NoReq
       /\ slot'[u].cb = <<Report("onSuccess", <<session>>)>>
       /\ users'[u].signInUserSession = session
       /\ Cached(storage', users'[u].username, session)
       /\ DeviceIdentity(users'[u], storage') = DeviceIdentity(users[u], storage)]_vars

C15_Witness ==
  \E u \in Objects :
    /\ slot[u].answered = "devicePasswordVerifier"
    /\ HasResult(slot[u].resp)
    /\ "NewDeviceMetadata" \in DOMAIN slot[u].resp.data.AuthenticationResult
    /\ EndedWith(slot[u], "onSuccess")
    /\ users[u].deviceKey # slot[u].resp.data.AuthenticationResult.NewDeviceMetadata.DeviceKey
    /\ users[u].signInUserSession = SessionOf(slot[u].resp.data.AuthenticationResult)

\* The answer carries an AuthenticationResult with NewDeviceMetadata.
NewDeviceResult(resp) ==
  /\ HasResult(resp)
  /\ ~IsNullish(Get(resp.data.AuthenticationResult, "NewDeviceMetadata"))

\* C16: when the AuthenticationResult that answers PASSWORD_VERIFIER
\* (authenticateUser) or SMS_MFA (sendMFACode) carries NewDeviceMetadata,
\* nothing is reported on that step and ConfirmDevice is requested for the
\* new device key; the onSuccess that follows is reported by the callback of
\* that ConfirmDevice request, on an answer without error, and with the
\* device identity (deviceKey, deviceGroupKey, randomPassword) written to
\* the cache.
C16_SuccessAfterConfirmDevice ==
  [][\A u \in Objects :
       /\ (/\ slot[u].pc \in {"passwordVerifier", "smsMfa"}
           /\ slot'[u].pc # slot[u].pc
           /\ NewDeviceResult(slot'[u].resp))
          =>
          LET metadata == slot'[u].resp.data.AuthenticationResult.NewDeviceMetadata IN
          /\ slot'[u].pc = "confirmDevice"
          /\ slot'[u].req.api = "confirmDevice"
          /\ slot'[u].req.DeviceKey = metadata.DeviceKey
          /\ slot'[u].cb = <<>>
       /\ (CallbackRuns(u, "confirmDevice") /\ EndedWith(slot'[u], "onSuccess"))
          =>
          LET metadata == slot[u].resp.data.AuthenticationResult.NewDeviceMetadata
              name == users'[u].username
          IN /\ slot[u].req.api = "confirmDevice"
             /\ slot[u].op \in {"authenticateUser", "sendMFACode"}
             /\ ~IsErr(slot'[u].resp)
             /\ Len(slot'[u].cb) = 1
             /\ getItem(storage', UserKey(name, "deviceKey")) = metadata.DeviceKey
             /\ getItem(storage', UserKey(name, "deviceGroupKey")) = metadata.DeviceGroupKey
             /\ getItem(storage', UserKey(name, "randomPasswordKey")) = users'[u].randomPassword
             /\ users'[u].randomPassword.k = "randomPassword"]_vars

C16_Witness ==
  \E u \in Objects :
    /\ slot[u].op = "sendMFACode"
    /\ slot[u].answered = "confirmDevice"
    /\ ~IsErr(slot[u].resp)
    /\ EndedWith(slot[u], "onSuccess")
    /\ ConfirmedDevice(users[u].username, issued)

\* ConfirmDevice was answered with userConfirmationNecessary true.
ConfirmationNecessary(resp) ==
  ~IsErr(resp) /\ resp.data.UserConfirmationNecessary = TRUE

\* C17: when ConfirmDevice succeeds with userConfirmationNecessary true, the
\* attempt ends in success: the one report is onSuccess with the session
\* and the flag, the device identity is in the cache, and onFailure is not
\* reported.
C17_ConfirmationNecessaryIsSuccess ==
  [][\A u \in Objects :
       (CallbackRuns(u, "confirmDevice") /\ ConfirmationNecessary(slot'[u].resp))
       =>
       LET metadata == slot[u].resp.data.AuthenticationResult.NewDeviceMetadata
           name == users'[u].username
       IN /\ slot'[u].pc = "done"
          /\ slot'[u].cb =
               <<Report("onSuccess", <<users'[u].signInUserSession, Val("true", 0)>>)>>
          /\ users'[u].signInUserSession = users[u].signInUserSession
          /\ users'[u].deviceKey = metadata.DeviceKey
          /\ getItem(storage', UserKey(name, "deviceKey")) = metadata.DeviceKey
          /\ getItem(storage', UserKey(name, "deviceGroupKey")) = metadata.DeviceGroupKey
          /\ getItem(storage', UserKey(name, "randomPasswordKey")).k = "randomPassword"]_vars

C17_Witness ==
  \E u \in Objects :
    /\ slot[u].answered = "confirmDevice"
    /\ ConfirmationNecessary(slot[u].resp)
    /\ EndedWith(slot[u], "onSuccess")
    /\ Len(slot[u].cb[1].args) = 2
    /\ slot[u].cb[1].args[1] = SessionOf(Tokens(issued, TRUE))

\* The outstanding request of u answers an SRP challenge with a signature.
SendsVerifier(u) ==
  /\ slot[u].req.api = "respondToAuthChallenge"
  /\ slot[u].req.ChallengeName \in {PASSWORD_VERIFIER, DEVICE_PASSWORD_VERIFIER}

\* C18: in every PASSWORD_VERIFIER and DEVICE_PASSWORD_VERIFIER response the
\* TIMESTAMP sent is the timestamp that was fed into the HMAC of
\* PASSWORD_CLAIM_SIGNATURE, and the secret block sent is the one that was
\* signed, which is the one of the challenge being answered.
C18_TimestampSentIsSigned ==
  \A u \in Objects :
    SendsVerifier(u)
    =>
    LET cr == slot[u].req.ChallengeResponses
        signed == cr.PASSWORD_CLAIM_SIGNATURE.msg
    IN /\ cr.TIMESTAMP = signed[4]
       /\ cr.TIMESTAMP \in Timestamps
       /\ cr.PASSWORD_CLAIM_SECRET_BLOCK = signed[3]
       /\ cr.PASSWORD_CLAIM_SECRET_BLOCK = slot[u].resp.data.ChallengeParameters.SECRET_BLOCK

C18_Witness ==
  \E u \in Objects :
    /\ SendsVerifier(u)
    /\ slot[u].req.ChallengeName = DEVICE_PASSWORD_VERIFIER
    /\ slot[u].req.ChallengeResponses.TIMESTAMP = Val("now", 2)
    /\ slot[u].req.ChallengeResponses.PASSWORD_CLAIM_SIGNATURE.msg[4] = Val("now", 2)

\* v is a string value [k, n].
IsValue(v) == DOMAIN v = {"k", "n"}

\* v is the account password or a device random password.
IsPassword(v) == IsValue(v) /\ v.k \in {"password", "randomPassword"}

\* v is a derived shared key (a result of getPasswordAuthenticationKey).
IsSharedKey(v) == {"password", "salt", "B"} \subseteq DOMAIN v

IsSecret(v) == IsPassword(v) \/ IsSharedKey(v)

\* No parameter of the request, at the top or inside AuthParameters,
\* ChallengeResponses or DeviceSecretVerifierConfig, is a secret.
NoSecretSent(req) ==
  \A f \in DOMAIN req \ {"api", "AuthFlow"} :
    /\ ~IsSecret(req[f])
    /\ IsValue(req[f]) \/ \A g \in DOMAIN req[f] : ~IsSecret(req[f][g])

DerivationRejected(u) ==
  /\ slot[u].answered \in {"initiateAuth", "deviceSrpAuth"}
  /\ ~IsErr(slot[u].resp)
  /\ KeyDerivationRejects(slot[u].resp.data.ChallengeParameters.SRP_B)

\* C20: when key derivation rejects the server values, the attempt ends in
\* failure reported to the caller through onFailure, and no
\* RespondToAuthChallenge is sent, no session is set and no token is cached
\* by it.
C20_RejectedDerivationFails ==
  \A u \in Objects :
    DerivationRejected(u)
    =>
    /\ slot[u].req = NoReq
    /\ EndedWith(slot[u], "onFailure")

\* The provider answered the sendCustomChallengeAnswer of u with a further
\* CUSTOM_CHALLENGE.
ChallengedAgain(u) ==
  /\ slot[u].op = "sendCustomChallengeAnswer"
  /\ slot[u].answered = "customChallenge"
  /\ ~IsErr(slot[u].resp)
  /\ ChallengeIs(slot[u].resp.data, CUSTOM_CHALLENGE)

\* C21: each time the provider answers with CUSTOM_CHALLENGE, after a
\* previous sendCustomChallengeAnswer as after PASSWORD_VERIFIER, the
\* session token of that answer replaces the stored one and customChallenge
\* is reported with the challenge parameters of that same answer.
C21_CustomChallengeReported ==
  \A u \in Objects :
    ChallengedAgain(u)
    =>
    /\ users[u].Session = slot[u].resp.data.Session
    /\ slot[u].cb =
         <<Report("customChallenge", <<slot[u].resp.data.ChallengeParameters>>)>>

\* The three values are all unset, or are the identity of one confirmation.
OneDeviceIdentity(key, group, password) ==
  \/ IsNullish(key) /\ IsNullish(group) /\ IsNullish(password)
  \/ \E n \in 1..MaxIssue + 1 :
       key = DevKey(n) /\ group = DevGroup(n) /\ password = RandomPw(n)

\* C22: whenever no call is in progress on the user object (so also after
\* a failed ConfirmDevice and after forgetDevice), its deviceKey,
\* deviceGroupKey and randomPassword are all unset or all of one
\* device-confirmation event, and so are the three device entries cached
\* under (clientId, username).
C22_OneDeviceIdentity ==
  \A u \in Objects :
    Settled(slot[u])
    =>
    /\ OneDeviceIdentity(users[u].deviceKey, users[u].deviceGroupKey,
                         users[u].randomPassword)
    /\ OneDeviceIdentity(getItem(storage, UserKey(users[u].username, "deviceKey")),
                         getItem(storage, UserKey(users[u].username, "deviceGroupKey")),
                         getItem(storage, UserKey(users[u].username, "randomPasswordKey")))

\* The order of the provider requests within one attempt: which request
\* may follow the answer to which.
RequestOrder ==
  {<<"initiateAuth", "passwordVerifier">>,
   <<"passwordVerifier", "confirmDevice">>,
   <<"passwordVerifier", "deviceSrpAuth">>,
   <<"deviceSrpAuth", "devicePasswordVerifier">>,
   <<"smsMfa", "confirmDevice">>}

\* C23: within one attempt the provider calls are strictly sequential.  A
\* step that leaves a request outstanding either starts a call (no request
\* was outstanding, none has been answered) or is the callback of the one
\* outstanding request, has handled a successful answer to it, and replaces
\* it by the next request in the order InitiateAuth, PASSWORD_VERIFIER, then
\* ConfirmDevice or DEVICE_SRP_AUTH and DEVICE_PASSWORD_VERIFIER; a step
\* that ends a call leaves no request outstanding.
C23_RequestsSequential ==
  [][\A u \in Objects :
       slot'[u] # slot[u]
       =>
       IF Settled(slot'[u])
       THEN slot'[u].req = NoReq
       ELSE /\ slot'[u].req # NoReq
            /\ IF Settled(slot[u])
               THEN /\ slot[u].req = NoReq
                    /\ slot'[u].answered = "none"
               ELSE /\ slot[u].req # NoReq
                    /\ slot'[u].answered = slot[u].pc
                    /\ ~IsErr(slot'[u].resp)
                    /\ <<slot[u].pc, slot'[u].pc>> \in RequestOrder]_vars

C23_Witness ==
  \E u \in Objects :
    /\ slot[u].op = "authenticateUser"
    /\ slot[u].pc = "devicePasswordVerifier"
    /\ slot[u].answered = "deviceSrpAuth"
    /\ slot[u].req.ChallengeName = DEVICE_PASSWORD_VERIFIER
    /\ ~IsErr(slot[u].resp)

\* The call that finished last on u reported a failure after the provider
\* had issued an AuthenticationResult to it: its ConfirmDevice request was
\* answered with an error.  No other call of the object ran in between, so
\* that result is the one issued last.
FailedAfterResult(u) ==
  /\ slot[u].op \in {"authenticateUser", "sendMFACode"}
  /\ slot[u].answered = "confirmDevice"
  /\ EndedWith(slot[u], "onFailure")

\* C24: failure atomicity.  An attempt that ends by reporting a failure
\* leaves the current session and the cached tokens as they were when it
\* started; so the tokens of an AuthenticationResult issued during the
\* attempt, which were in neither place at its start, are in neither place
\* after it.
C24_FailureAtomic ==
  \A u \in Objects :
    FailedAfterResult(u)
    =>
    /\ \/ IsNullish(users[u].signInUserSession)
       \/ users[u].signInUserSession.IdToken # IdTok(issued)
    /\ getItem(storage, UserKey(users[u].username, "idToken")) # IdTok(issued)
    /\ getItem(storage, UserKey(users[u].username, "accessToken")) # AccTok(issued)
    /\ getItem(storage, UserKey(users[u].username, "refreshToken")) # RefTok(issued)

\* The outstanding request of u is a RespondToAuthChallenge issued by the
\* callback of an earlier request of the same call, whose answer is
\* slot[u].resp.
RespondsToAnswer(u) ==
  /\ slot[u].req.api = "respondToAuthChallenge"
  /\ slot[u].answered # "none"

\* C25: every RespondToAuthChallenge request issued after a provider
\* response of the attempt carries the session token of the most recent
\* response (PASSWORD_VERIFIER, DEVICE_SRP_AUTH and DEVICE_PASSWORD_VERIFIER
\* alike), never a missing one.
C25_SessionTokenCarried ==
  \A u \in Objects :
    RespondsToAnswer(u)
    =>
    /\ "Session" \in DOMAIN slot[u].req
    /\ slot[u].req.Session \in SessTokens
    /\ slot[u].req.Session = slot[u].resp.data.Session

\* The parameters of the outstanding request of u in which the claim places
\* DEVICE_KEY: AuthParameters of InitiateAuth (SRP or refresh),
\* ChallengeResponses of PASSWORD_VERIFIER and SMS_MFA; empty otherwise.
DeviceKeyParameters(u) ==
  IF slot[u].req.api = "initiateAuth" THEN slot[u].req.AuthParameters
  ELSE IF /\ slot[u].req.api = "respondToAuthChallenge"
          /\ slot[u].req.ChallengeName \in {PASSWORD_VERIFIER, SMS_MFA}
  THEN slot[u].req.ChallengeResponses
  ELSE <<>>

\* C26: a DEVICE_KEY parameter is in a provider request only with a
\* non-null device key, the one the user object knows; with no device key
\* known or cached the request has no DEVICE_KEY parameter at all.
C26_DeviceKeyOnlyWhenKnown ==
  \A u \in Objects :
    "DEVICE_KEY" \in DOMAIN DeviceKeyParameters(u)
    =>
    /\ ~IsNullish(DeviceKeyParameters(u).DEVICE_KEY)
    /\ DeviceKeyParameters(u).DEVICE_KEY = users[u].deviceKey

\* The users whose tokens the browser's cache can hold.
CachedUsers == {Alice, Bob}

\* The step in which a refresh sent with the refresh token cached under
\* owner's keys is answered with an AuthenticationResult.
RefreshedFor(u, owner) ==
  /\ CallbackRuns(u, "refreshToken")
  /\ slot'[u].answered = "refreshToken"
  /\ HasResult(slot'[u].resp)
  /\ getItem(storage, UserKey(owner, "refreshToken"))
       = slot[u].req.AuthParameters.REFRESH_TOKEN

\* C27: tokens are never cached under another user's keys: the tokens a
\* refresh obtains with the refresh token cached for one user are written
\* under that user's keys and under no other user's.
C27_TokensUnderOwnKeys ==
  [][\A u \in Objects : \A owner \in CachedUsers :
       RefreshedFor(u, owner)
       =>
       LET IdToken == slot'[u].resp.data.AuthenticationResult.IdToken
       IN /\ getItem(storage', UserKey(owner, "idToken")) = IdToken
          /\ \A other \in CachedUsers \ {owner} :
               getItem(storage', UserKey(other, "idToken")) # IdToken]_vars

\* signOut was called while the refreshSession the application started on u
\* is pending: that call found a session (lines 669-671 read its refresh
\* token), and only signOut sets the session back to null.
SignedOutWhilePending(u) ==
  /\ slot[u].op = "refreshSession"
  /\ slot[u].pc = "refreshToken"
  /\ users[u].signInUserSession = Null

\* C28: sign-out is not undone by a response that was already in flight:
\* when the answer of a refreshSession that was pending at the signOut is
\* processed, the in-memory session is still null and the cache still holds
\* no tokens for the user.
C28_SignOutNotUndone ==
  [][\A u \in Objects :
       SignedOutWhilePending(u) /\ CallbackRuns(u, "refreshToken")
       =>
       /\ users'[u].signInUserSession = Null
       /\ Absent(storage', UserKey(users'[u].username, "idToken"))
       /\ Absent(storage', UserKey(users'[u].username, "accessToken"))
       /\ Absent(storage', LastUserKey)]_vars

\* The call that finished last on u is a globalSignOut that succeeded.
GloballySignedOut(u) ==
  /\ slot[u].op = "globalSignOut"
  /\ slot[u].answered = "protected"
  /\ EndedWith(slot[u], "onSuccess")

\* The call that just returned on u invoked callback(null, session).
ReturnsSession(u, session) ==
  /\ EndedWith(slot'[u], "callback")
  /\ slot'[u].cb[Len(slot'[u].cb)].args = <<Null, session>>

\* C29: after globalSignOut succeeds the revoked session is no longer usable
\* through the user object: the cached tokens and LastAuthUser are removed
\* when its callback runs, a following getSession does not return the revoked
\* session, and a following protected operation sends no request.
C29_GlobalSignOutRevokes ==
  [][\A u \in Objects :
       /\ (CallbackRuns(u, "protected") /\ GloballySignedOut(u)')
          =>
          /\ Absent(storage', UserKey(users[u].username, "idToken"))
          /\ Absent(storage', UserKey(users[u].username, "accessToken"))
          /\ Absent(storage', UserKey(users[u].username, "refreshToken"))
          /\ Absent(storage', LastUserKey)
       /\ (GloballySignedOut(u) /\ CallGetSession(u))
          => ~ReturnsSession(u, users[u].signInUserSession)
       /\ (GloballySignedOut(u) /\ CallProtected(u))
          => slot'[u].pc # "protected"]_vars

====
